---- MODULE Spec2Model ----
(***************************************************************************)
(* Model of src/postgraphile/http/subscriptions.ts: the websocket          *)
(* subscription transport of PostGraphile.  One call of                    *)
(* enhanceHttpServerWithSubscriptions installs an upgrade listener and a   *)
(* SubscriptionServer whose handlers (onConnect, onOperation,              *)
(* onOperationComplete) share the registry keepalivePromisesByContextKey   *)
(* and the per-socket fields postgraphileId, __postgraphileReq and         *)
(* __postgraphileRes.  Every await of the source is a separate step.       *)
(***************************************************************************)
EXTENDS Naturals, Sequences, FiniteSets, TLC

(* ---------------------------------------------------------------- bounds *)

\* number of onOperation invocations (start messages) a behaviour contains
MaxOps == 2
\* cap of the process-wide socketId counter (number of onConnect calls)
MaxSocketId == 2
\* longest list of errors validate() reports
MaxErrors == 2
\* most rules the postgraphile:validationRules hook yields
MaxRules == 2
\* most keys of a connection-parameter object
MaxParams == 2
\* number of 'upgrade' events a behaviour contains
MaxUpgrades == 2

(* ------------------------------------------------------------ the domain *)

Sockets == {"s1", "s2"}
\* client-chosen operation ids; one contains the separator of contextKey
OpIds == {"1", "1|1"}
Ops == 1..MaxOps
\* calls of enhanceHttpServerWithSubscriptions on the one server object
Calls == {"c1", "c2"}
\* values the schema provider getGraphQLSchema can return
Schemas == {"schemaA", "schemaB"}
\* options.websocketMiddlewares || options.middlewares
Middlewares == <<"m1", "m2">>
\* messages of the GraphQLErrors validate() can report
ErrorMessages == {"e1", "e2"}

(* ------------------------------------------------- JavaScript values     *)
\* A JS value is tagged with its type; str is its String() rendering.
\* An object is the sequence of its <<key, value>> pairs in insertion order.

Undefined == [type |-> "undefined", str |-> "undefined"]
Str(s) == [type |-> "string", str |-> s]
Num(s) == [type |-> "number", str |-> s]

\* JS truthiness of a value: undefined, "" and 0 are falsy
Truthy(v) ==
  /\ v.type # "undefined"
  /\ ~(v.type = "string" /\ v.str = "")
  /\ ~(v.type = "number" /\ v.str = "0")

\* String(v)
JsString(v) == [type |-> "string", str |-> v.str]

HasKey(obj, k) == \E i \in 1..Len(obj) : obj[i][1] = k

\* obj[k]
Get(obj, k) ==
  IF HasKey(obj, k)
    THEN obj[CHOOSE i \in 1..Len(obj) : obj[i][1] = k][2]
    ELSE Undefined

\* obj[k] = v: an existing key keeps its place, a new key is appended
Put(obj, k, v) ==
  IF HasKey(obj, k)
    THEN [i \in 1..Len(obj) |-> IF obj[i][1] = k THEN <<k, v>> ELSE obj[i]]
    ELSE Append(obj, <<k, v>>)

\* key.toLowerCase() on the header names the model uses
ToLowerCase(k) ==
  CASE k = "Authorization" -> "authorization"
    [] k = "AUTHORIZATION" -> "authorization"
    [] k = "Origin" -> "origin"
    [] OTHER -> k

RECURSIVE LowerCaseFrom(_, _, _)
LowerCaseFrom(obj, i, memo) ==
  IF i > Len(obj)
    THEN memo
    ELSE LowerCaseFrom(obj, i + 1, Put(memo, ToLowerCase(obj[i][1]), obj[i][2]))

lowerCaseKeys(obj) == LowerCaseFrom(obj, 1, <<>>)

RECURSIVE SpreadFrom(_, _, _)
SpreadFrom(src, i, memo) ==
  IF i > Len(src)
    THEN memo
    ELSE SpreadFrom(src, i + 1, Put(memo, src[i][1], src[i][2]))

\* a spread in which the keys of a win over those of b
BrokenSpreadFirstWins(a, b) == SpreadFrom(a, 1, SpreadFrom(b, 1, a))

\* { ...a, ...b }
Spread(a, b) == SpreadFrom(b, 1, a)

(* ----------------------------------------------------------------- state *)

VARIABLES
  options,          \* postgraphileMiddleware.options (graphqlRoute)
  upgrades,         \* per 'upgrade' event, in order: what the listeners did
  enabled,          \* websocketServer['__postgraphileSubscriptionsEnabled']
  enhance,          \* position of each call of enhanceHttpServerWithSubscriptions
  upgradeListeners, \* listeners attached with websocketServer.on('upgrade')
  subscriptionServers, \* servers made by SubscriptionServer.create
  schema,           \* the schema fetched once at startup (line 64)
  currentSchema,    \* what getGraphQLSchema returns now
  socketId,         \* the counter behind postgraphileId
  socket,           \* per socket: postgraphileId, __postgraphileReq, ...
  request,          \* per socket: the upgrade request of its connection
  keepalivePromisesByContextKey, \* contextKey -> operation of the handle, or Null
  promise,          \* per operation: the Deferred it acquired, or NoPromise
  middlewareCalls,  \* per socket and middleware: times it was invoked
  operation         \* per onOperation invocation: its position and locals

vars == <<options, upgrades, enabled, enhance, upgradeListeners, subscriptionServers, schema,
          currentSchema, socketId, socket, request,
          keepalivePromisesByContextKey, promise, middlewareCalls, operation>>

serverVars == <<options, upgrades, enabled, enhance, upgradeListeners,
                subscriptionServers, schema>>

\* null, the value release leaves in a slot (operations are numbered from 1)
Null == 0
\* a Deferred that was never made
NoPromise == [made |-> FALSE, key |-> "", context |-> 0, resolved |-> 0]
NoSchema == "none"

\* the locals of an onOperation invocation that has not started
IdleOperation ==
  [pc |-> "idle", socket |-> "", opId |-> "", middleware |-> 0, res |-> 0,
   call |-> 0, context |-> 0, schema |-> NoSchema, completed |-> FALSE,
   error |-> "", rules |-> 0, validationErrors |-> <<>>, message |-> "",
   errors |-> <<>>]

NoRequest ==
  [present |-> FALSE, res |-> FALSE, headers |-> <<>>,
   connectionParams |-> <<>>, normalizedConnectionParams |-> <<>>]

Request(hostRes, headers) ==
  [present |-> TRUE, res |-> hostRes, headers |-> headers,
   connectionParams |-> <<>>, normalizedConnectionParams |-> <<>>]

NewSocket ==
  [postgraphileId |-> 0, hasReq |-> FALSE, res |-> 0, closed |-> FALSE,
   statusLogged |-> FALSE, postgraphileHeaders |-> <<>>]

(* -------------------------------------------- Context Lifecycle Registry *)

\* the key names the socket only
BrokenContextKeyIgnoresOpId(ws, opId) ==
  IF socket[ws].postgraphileId = 0
    THEN "undefined"
    ELSE ToString(socket[ws].postgraphileId)

\* ws['postgraphileId'] + '|' + opId; an unset id prints as "undefined"
contextKey(ws, opId) ==
  (IF socket[ws].postgraphileId = 0
     THEN "undefined"
     ELSE ToString(socket[ws].postgraphileId)) \o "|" \o opId

\* keepalivePromisesByContextKey[key]; a key never written reads as falsy
Slot(map, key) == IF key \in DOMAIN map THEN map[key] ELSE Null

Store(map, key, v) ==
  [k \in DOMAIN map \cup {key} |-> IF k = key THEN v ELSE map[k]]

\* The registry is the pair st = [map, promise].
BrokenReleaseKeepsSlot(st, ws, opId) ==
  LET p == Slot(st.map, contextKey(ws, opId)) IN
  IF p # Null
    THEN [st EXCEPT !.promise[p].resolved = @ + 1]
    ELSE st

releaseContextForSocketAndOpId(st, ws, opId) ==
  LET p == Slot(st.map, contextKey(ws, opId)) IN
  IF p # Null
    THEN [map |-> Store(st.map, contextKey(ws, opId), Null),
          promise |-> [st.promise EXCEPT ![p].resolved = @ + 1]]
    ELSE st

\* o is the invocation whose Deferred is made; context is its context value
BrokenAddWithoutRelease(st, context, ws, opId, o) ==
  [map |-> Store(st.map, contextKey(ws, opId), o),
   promise |-> [st.promise EXCEPT ![o] =
     [made |-> TRUE, key |-> contextKey(ws, opId),
      context |-> context, resolved |-> 0]]]

\* stores the new handle first and releases the key afterwards
BrokenAddReleasesAfterStore(st, context, ws, opId, o) ==
  LET released == releaseContextForSocketAndOpId(st, ws, opId)
      stored ==
        [map |-> Store(released.map, contextKey(ws, opId), o),
         promise |-> [released.promise EXCEPT ![o] =
           [made |-> TRUE, key |-> contextKey(ws, opId),
            context |-> context, resolved |-> 0]]]
  IN IF Slot(st.map, contextKey(ws, opId)) # Null
       THEN releaseContextForSocketAndOpId(stored, ws, opId)
       ELSE stored

addContextForSocketAndOpId(st, context, ws, opId, o) ==
  LET released == releaseContextForSocketAndOpId(st, ws, opId) IN
  [map |-> Store(released.map, contextKey(ws, opId), o),
   promise |-> [released.promise EXCEPT ![o] =
     [made |-> TRUE, key |-> contextKey(ws, opId),
      context |-> context, resolved |-> 0]]]

Registry == [map |-> keepalivePromisesByContextKey, promise |-> promise]

SetRegistry(st) ==
  /\ keepalivePromisesByContextKey' = st.map
  /\ promise' = st.promise

(* ------------------------------------ enhanceHttpServerWithSubscriptions *)

\* The call up to its first await: the guard on the server's mark, the mark.
BrokenEnhanceMarksNothing(c) ==
  /\ enhance[c] = "new"
  /\ enhance' = [enhance EXCEPT ![c] = "awaiting"]
  /\ UNCHANGED <<options, upgrades, enabled, upgradeListeners,
                 subscriptionServers, schema>>

EnhanceCallBody(c) ==
  /\ enhance[c] = "new"
  /\ IF enabled
       THEN /\ enhance' = [enhance EXCEPT ![c] = "returned"]
            /\ UNCHANGED enabled
       ELSE /\ enabled' = TRUE
            /\ enhance' = [enhance EXCEPT ![c] = "awaiting"]
  /\ UNCHANGED <<options, upgrades, upgradeListeners, subscriptionServers,
                 schema>>

EnhanceCall(c) ==
  /\ EnhanceCallBody(c)
  /\ UNCHANGED <<currentSchema, socketId, socket, request,
                 keepalivePromisesByContextKey, promise, middlewareCalls,
                 operation>>

\* await getGraphQLSchema() resolves: the rest of the function runs
EnhanceInstall(c) ==
  /\ enhance[c] = "awaiting"
  /\ schema' = currentSchema
  /\ upgradeListeners' = upgradeListeners + 1
  /\ subscriptionServers' = subscriptionServers + 1
  /\ enhance' = [enhance EXCEPT ![c] = "installed"]
  /\ UNCHANGED <<options, upgrades, enabled, currentSchema, socketId, socket,
                 request, keepalivePromisesByContextKey, promise,
                 middlewareCalls, operation>>

\* the handlers exist once SubscriptionServer.create has run
Installed == subscriptionServers > 0

\* the schema provider starts returning another schema (--watch)
SchemaReload ==
  /\ \E next \in Schemas \ {currentSchema} : currentSchema' = next
  /\ UNCHANGED <<serverVars, socketId, socket, request,
                 keepalivePromisesByContextKey, promise, middlewareCalls,
                 operation>>

(* ------------------------------------------------------- upgrade listener *)

\* req.url of an upgrade request; NoUrl is a request that carries no url
NoUrl == "<no url>"
Urls == {"/graphql", "/graphql?token=1", "/graphql/", "/GraphQL", "/other",
         "/api", NoUrl}

\* parseUrl(req): the parsed url, or undefined when req.url is missing
parseUrl(url) ==
  CASE url = NoUrl -> Undefined
    [] url = "/graphql?token=1" -> [type |-> "object", pathname |-> "/graphql"]
    [] OTHER -> [type |-> "object", pathname |-> url]

\* const { pathname = '' } = parseUrl(req) || {}
pathname(url) ==
  IF parseUrl(url).type = "undefined" THEN "" ELSE parseUrl(url).pathname

\* values of options.graphqlRoute
RouteOptions == {Undefined, Str(""), Str("/graphql"), Str("/api")}

\* options.graphqlRoute || '/graphql'
graphqlRoute ==
  IF Truthy(options.graphqlRoute) THEN options.graphqlRoute.str ELSE "/graphql"

\* the listener compares the raw url with the route
BrokenRouteMatchesUrl(url) == url = graphqlRoute

isGraphqlRoute(url) == pathname(url) = graphqlRoute

\* The server emits 'upgrade' for a request with this url: every attached
\* listener runs.  On the route wss.handleUpgrade performs the handshake and
\* its callback emits 'connection' (the request is a well-formed websocket
\* upgrade); otherwise the listener does nothing.
Upgrade(url) ==
  /\ upgradeListeners > 0
  /\ Len(upgrades) < MaxUpgrades
  /\ upgrades' = Append(upgrades,
       [url |-> url,
        handshakes |-> IF isGraphqlRoute(url) THEN upgradeListeners ELSE 0,
        connections |-> IF isGraphqlRoute(url) THEN upgradeListeners ELSE 0])
  /\ UNCHANGED <<options, enabled, enhance, upgradeListeners,
                 subscriptionServers, schema, currentSchema, socketId, socket,
                 request, keepalivePromisesByContextKey, promise,
                 middlewareCalls, operation>>

(* -------------------------------------------------------------- onConnect *)

\* lines 187-196: request.headers after the authorization backfill
BrokenBackfillOverrides(headers, normalized) ==
  IF Truthy(Get(normalized, "authorization"))
    THEN Put(headers, "authorization", JsString(Get(normalized, "authorization")))
    ELSE headers

BackfillAuthorization(headers, normalized) ==
  IF ~Truthy(Get(headers, "authorization"))
     /\ Truthy(Get(normalized, "authorization"))
    THEN Put(headers, "authorization", JsString(Get(normalized, "authorization")))
    ELSE headers

OnConnect(s, connectionParams) ==
  /\ Installed
  /\ socketId < MaxSocketId
  /\ socketId' = socketId + 1
  /\ IF ~request[s].present
       THEN \* throw new Error('No request!')
            /\ socket' = [socket EXCEPT ![s].postgraphileId = socketId + 1]
            /\ UNCHANGED request
       ELSE LET normalized == lowerCaseKeys(connectionParams)
                headers == BackfillAuthorization(request[s].headers, normalized)
            IN /\ request' = [request EXCEPT
                    ![s].connectionParams = connectionParams,
                    ![s].normalizedConnectionParams = normalized,
                    ![s].headers = headers]
               /\ socket' = [socket EXCEPT
                    ![s].postgraphileId = socketId + 1,
                    ![s].hasReq = TRUE,
                    ![s].postgraphileHeaders = Spread(normalized, headers)]
  /\ UNCHANGED <<serverVars, currentSchema, keepalivePromisesByContextKey,
                 promise, middlewareCalls, operation>>

(* ------------------------------------------------ Pseudo-Response Bridge *)

\* reqResFromSocket without the check of req.res
BrokenReqResIgnoresReserved(s) ==
  IF ~socket[s].hasReq THEN "req could not be extracted"
  ELSE IF socket[s].res # 0 THEN "cached"
  ELSE "create"

\* the synchronous part of reqResFromSocket (lines 100-110)
ReqResOutcome(s) ==
  IF ~socket[s].hasReq THEN "req could not be extracted"
  ELSE IF request[s].res THEN "req.res is reserved"
  ELSE IF socket[s].res # 0 THEN "cached"
  ELSE "create"

\* where onOperation goes on once its call-th reqResFromSocket has resolved:
\* the first call is getContext's, the second is line 214
AfterReqRes(call) == IF call = 1 THEN "context" ELSE "reqres"

\* The invocation o (locals op) calls reqResFromSocket for the call-th time.
\* A cached pseudo-response is returned; otherwise a new one is made (named
\* after its maker) and applyMiddleware starts the first middleware.  With no
\* middleware configured nothing separates the call from line 128.
EnterReqRes(op, o, call) ==
  LET outcome == ReqResOutcome(op.socket) IN
  CASE outcome = "cached" ->
         [op EXCEPT !.call = call, !.pc = AfterReqRes(call),
                    !.res = socket[op.socket].res]
    [] outcome = "create" ->
         IF Len(Middlewares) = 0
           THEN [op EXCEPT !.call = call, !.res = o, !.pc = AfterReqRes(call)]
           ELSE [op EXCEPT !.call = call, !.res = o, !.pc = "middleware",
                           !.middleware = 1]
    [] OTHER ->
         [op EXCEPT !.call = call, !.pc = "failed", !.error = outcome]

\* socket['__postgraphileRes'] after invocation o entered reqResFromSocket
EnterRes(op, o) ==
  IF ReqResOutcome(op.socket) = "create" /\ Len(Middlewares) = 0
    THEN [socket EXCEPT ![op.socket].res = o]
    ELSE socket

\* applyMiddleware invokes middleware i of socket s
Invoke(calls, s, i) == [calls EXCEPT ![s][i] = @ + 1]

\* middlewareCalls after invocation o entered reqResFromSocket
EnterCalls(op) ==
  IF ReqResOutcome(op.socket) = "create" /\ Len(Middlewares) > 0
    THEN Invoke(middlewareCalls, op.socket, 1)
    ELSE middlewareCalls

\* dummyRes.writeHead(statusCode, _, headers) on the pseudo-response of socket
\* record ws (statusCode 0 stands for a falsy status).  statusLogged records
\* the console.error of line 115, the one about an error status.
writeHead(ws, statusCode, headers) ==
  IF statusCode # 0 /\ statusCode > 200
    THEN [ws EXCEPT !.statusLogged = TRUE, !.closed = TRUE]
  ELSE IF headers
    THEN [ws EXCEPT !.closed = TRUE]
  ELSE ws

StatusCodes == {0, 200, 500}

\* a running middleware calls res.writeHead on the pseudo-response it was given
MiddlewareWriteHead(o, statusCode, headers) ==
  /\ operation[o].pc = "middleware"
  /\ socket' = [socket EXCEPT ![operation[o].socket] =
                  writeHead(@, statusCode, headers)]
  /\ UNCHANGED <<serverVars, currentSchema, socketId, request,
                 keepalivePromisesByContextKey, promise, middlewareCalls,
                 operation>>

\* the loop of applyMiddleware goes on to the next middleware after an error
BrokenMiddlewareContinuesAfterError(o, err) ==
  LET op == operation[o] IN
  /\ op.pc = "middleware"
  /\ IF err
       THEN /\ operation' = [operation EXCEPT ![o].pc = "failed",
                                               ![o].error = "middleware"]
            /\ middlewareCalls' =
                 IF op.middleware < Len(Middlewares)
                   THEN Invoke(middlewareCalls, op.socket, op.middleware + 1)
                   ELSE middlewareCalls
            /\ UNCHANGED socket
       ELSE IF op.middleware < Len(Middlewares)
         THEN /\ operation' = [operation EXCEPT ![o].middleware = @ + 1]
              /\ middlewareCalls' =
                   Invoke(middlewareCalls, op.socket, op.middleware + 1)
              /\ UNCHANGED socket
         ELSE /\ operation' = [operation EXCEPT ![o].pc = AfterReqRes(op.call)]
              /\ socket' = [socket EXCEPT ![op.socket].res = op.res]
              /\ UNCHANGED middlewareCalls
  /\ UNCHANGED <<serverVars, currentSchema, socketId, request,
                 keepalivePromisesByContextKey, promise>>

\* A running middleware calls its callback: err ? reject(err) : resolve().
\* The loop of applyMiddleware goes on with the next middleware; after the
\* last one reqResFromSocket caches the pseudo-response (line 128) and resolves
\* (only promise continuations run between the callback and line 128).
MiddlewareDone(o, err) ==
  LET op == operation[o] IN
  /\ op.pc = "middleware"
  /\ IF err
       THEN /\ operation' = [operation EXCEPT ![o].pc = "failed",
                                               ![o].error = "middleware"]
            /\ UNCHANGED <<middlewareCalls, socket>>
       ELSE IF op.middleware < Len(Middlewares)
         THEN /\ operation' = [operation EXCEPT ![o].middleware = @ + 1]
              /\ middlewareCalls' =
                   Invoke(middlewareCalls, op.socket, op.middleware + 1)
              /\ UNCHANGED socket
         ELSE /\ operation' = [operation EXCEPT ![o].pc = AfterReqRes(op.call)]
              /\ socket' = [socket EXCEPT ![op.socket].res = op.res]
              /\ UNCHANGED middlewareCalls
  /\ UNCHANGED <<serverVars, currentSchema, socketId, request,
                 keepalivePromisesByContextKey, promise>>

(* ------------------------------------------------------------ onOperation *)

\* A start message: onOperation runs up to the first await inside getContext.
\* Invocations are numbered in the order they start.
StartOperation(o, s, opId) ==
  /\ Installed
  /\ operation[o].pc = "idle"
  /\ \A p \in Ops : p < o => operation[p].pc # "idle"
  /\ LET op == [operation[o] EXCEPT !.socket = s, !.opId = opId] IN
       /\ operation' = [operation EXCEPT ![o] = EnterReqRes(op, o, 1)]
       /\ middlewareCalls' = EnterCalls(op)
       /\ socket' = EnterRes(op, o)
  /\ UNCHANGED <<serverVars, currentSchema, socketId, request,
                 keepalivePromisesByContextKey, promise>>

\* withPostGraphileContextFromReqRes calls back with a context value (lines
\* 137-141): the handle is acquired and getContext resolves with its context.
\* The context value of invocation o is o.
ProviderYield(o) ==
  LET op == operation[o]
      st == addContextForSocketAndOpId(Registry, o, op.socket, op.opId, o)
  IN /\ op.pc = "context"
     /\ SetRegistry(st)
     /\ operation' = [operation EXCEPT ![o].pc = "schema",
                                       ![o].context = st.promise[o].context]
     /\ UNCHANGED <<serverVars, currentSchema, socketId, socket, request,
                    middlewareCalls>>

\* on a rejected context the handler also releases the operation's key
BrokenRejectReleasesKey(o) ==
  LET op == operation[o] IN
  /\ op.pc = "context"
  /\ operation' = [operation EXCEPT ![o].pc = "failed", ![o].error = "context"]
  /\ SetRegistry(releaseContextForSocketAndOpId(Registry, op.socket, op.opId))
  /\ UNCHANGED <<serverVars, currentSchema, socketId, socket, request,
                 middlewareCalls>>

\* withPostGraphileContextFromReqRes rejects before calling back (line 143)
ProviderReject(o) ==
  /\ operation[o].pc = "context"
  /\ operation' = [operation EXCEPT ![o].pc = "failed", ![o].error = "context"]
  /\ UNCHANGED <<serverVars, currentSchema, socketId, socket, request,
                 keepalivePromisesByContextKey, promise, middlewareCalls>>

\* the handler keeps the schema fetched at startup
BrokenSchemaFromStartup(o) ==
  LET op == [operation[o] EXCEPT !.schema = schema] IN
  /\ operation[o].pc = "schema"
  /\ operation' = [operation EXCEPT ![o] = EnterReqRes(op, o, 2)]
  /\ middlewareCalls' = EnterCalls(op)
  /\ socket' = EnterRes(op, o)
  /\ UNCHANGED <<serverVars, currentSchema, socketId, request,
                 keepalivePromisesByContextKey, promise>>

\* await getGraphQLSchema() resolves (line 210); line 214 calls reqResFromSocket
SchemaResolved(o) ==
  LET op == [operation[o] EXCEPT !.schema = currentSchema] IN
  /\ operation[o].pc = "schema"
  /\ operation' = [operation EXCEPT ![o] = EnterReqRes(op, o, 2)]
  /\ middlewareCalls' = EnterCalls(op)
  /\ socket' = EnterRes(op, o)
  /\ UNCHANGED <<serverVars, currentSchema, socketId, request,
                 keepalivePromisesByContextKey, promise>>

RECURSIVE Join(_, _)
\* messages.join(sep)
Join(messages, sep) ==
  IF messages = <<>> THEN ""
  ELSE IF Len(messages) = 1 THEN messages[1]
  ELSE messages[1] \o sep \o Join(Tail(messages), sep)

RECURSIVE JoinDropsLast(_, _)
JoinDropsLast(messages, sep) ==
  IF messages = <<>> THEN ""
  ELSE IF Len(messages) <= 2 THEN messages[1]
  ELSE messages[1] \o sep \o JoinDropsLast(Tail(messages), sep)

\* lines 259-261: the message of the aggregate error
BrokenMessageDropsLast(validationErrors) ==
  "Query validation failed: \n" \o JoinDropsLast(validationErrors, "\n")

AggregateMessage(validationErrors) ==
  "Query validation failed: \n" \o Join(validationErrors, "\n")

\* Lines 215-267, after the second reqResFromSocket resolved.  parseOk: parse
\* accepts the query; rules: how many rules the postgraphile:validationRules
\* hook yields; reported: the messages of the errors validate() would report.
OperationFinish(o, parseOk, rules, reported) ==
  /\ operation[o].pc = "reqres"
  /\ operation' = [operation EXCEPT ![o] =
       IF ~parseOk
         THEN [@ EXCEPT !.pc = "failed", !.error = "syntax"]
       ELSE IF rules > 0 /\ Len(reported) > 0
         THEN [@ EXCEPT !.pc = "failed", !.error = "validation",
                        !.rules = rules, !.validationErrors = reported,
                        !.message = AggregateMessage(reported),
                        !.errors = reported]
       ELSE [@ EXCEPT !.pc = "returned", !.rules = rules,
                      !.validationErrors = IF rules > 0 THEN reported ELSE <<>>]]
  /\ UNCHANGED <<serverVars, currentSchema, socketId, socket, request,
                 keepalivePromisesByContextKey, promise, middlewareCalls>>

(* ---------------------------------------------------- onOperationComplete *)

\* completed records, for each started invocation on (s, opId), that the
\* completion handler has run for it
OnOperationComplete(s, opId) ==
  /\ Installed
  /\ SetRegistry(releaseContextForSocketAndOpId(Registry, s, opId))
  /\ operation' = [o \in Ops |->
       IF operation[o].pc # "idle" /\ operation[o].socket = s
          /\ operation[o].opId = opId
         THEN [operation[o] EXCEPT !.completed = TRUE]
         ELSE operation[o]]
  /\ UNCHANGED <<serverVars, currentSchema, socketId, socket, request,
                 middlewareCalls>>

(* ---------------------------------------------------------- specification *)

EmptyRegistry == [k \in {} |-> Null]

\* the state after construction, given the options and each socket's upgrade
\* request
InitOptions(opts, requests) ==
  /\ options = opts
  /\ upgrades = <<>>
  /\ enabled = FALSE
  /\ enhance = [c \in Calls |-> "new"]
  /\ upgradeListeners = 0
  /\ subscriptionServers = 0
  /\ schema = NoSchema
  /\ currentSchema = "schemaA"
  /\ socketId = 0
  /\ socket = [s \in Sockets |-> NewSocket]
  /\ request = requests
  /\ keepalivePromisesByContextKey = EmptyRegistry
  /\ promise = [o \in Ops |-> NoPromise]
  /\ middlewareCalls = [s \in Sockets |-> [i \in 1..Len(Middlewares) |-> 0]]
  /\ operation = [o \in Ops |-> IdleOperation]

DefaultOptions == [graphqlRoute |-> Undefined]

InitWith(requests) == InitOptions(DefaultOptions, requests)

ErrorLists(n) == UNION {[1..k -> ErrorMessages] : k \in 0..n}

ConnectionParamsShort == {<< <<"Authorization", Str("X")>> >>}

\* Spec: two sockets with well-formed upgrade requests, one installation
\* call, every handler; queries parse, the validation hook yields one rule.
Init == InitWith([s \in Sockets |-> Request(FALSE, <<>>)])

Next ==
  \/ EnhanceCall("c1")
  \/ EnhanceInstall("c1")
  \/ \E s \in Sockets, cp \in ConnectionParamsShort : OnConnect(s, cp)
  \/ \E o \in Ops, s \in Sockets, opId \in OpIds : StartOperation(o, s, opId)
  \/ \E o \in Ops, code \in StatusCodes, headers \in BOOLEAN :
       MiddlewareWriteHead(o, code, headers)
  \/ \E o \in Ops, err \in BOOLEAN : MiddlewareDone(o, err)
  \/ \E o \in Ops : ProviderYield(o)
  \/ \E o \in Ops : ProviderReject(o)
  \/ \E o \in Ops : SchemaResolved(o)
  \/ \E o \in Ops, reported \in ErrorLists(1) :
       OperationFinish(o, TRUE, 1, reported)
  \/ \E s \in Sockets, opId \in OpIds : OnOperationComplete(s, opId)

Spec == Init /\ [][Next]_vars

\* SpecRegistry: the traffic that reaches the registry, which is acquire
\* (at the end of getContext) and release (at completion); two operation ids
\* on socket s1, one on s2; s1 may send connection_init again.
NextRegistry ==
  \/ EnhanceCall("c1")
  \/ EnhanceInstall("c1")
  \/ \E cp \in ConnectionParamsShort : OnConnect("s1", cp)
  \/ \E cp \in ConnectionParamsShort :
       socket["s2"].postgraphileId = 0 /\ OnConnect("s2", cp)
  \/ \E o \in Ops, opId \in OpIds : StartOperation(o, "s1", opId)
  \/ \E o \in Ops : StartOperation(o, "s2", "1")
  \/ \E o \in Ops : MiddlewareDone(o, FALSE)
  \/ \E o \in Ops : ProviderYield(o)
  \/ \E opId \in OpIds : OnOperationComplete("s1", opId)
  \/ OnOperationComplete("s2", "1")

SpecRegistry == Init /\ [][NextRegistry]_vars

\* SpecConnect: onConnect on socket s1, over every upgrade-request header
\* bag of HeaderChoices and every connection-parameter object of
\* ConnectionParams (mixed-case keys, empty and non-string values).
HeaderChoices ==
  { <<>>,
    << <<"authorization", Str("Y")>> >>,
    << <<"authorization", Str("")>> >>,
    << <<"origin", Str("O")>> >>,
    << <<"origin", Str("O")>>, <<"authorization", Str("Y")>> >> }

ParamKeys == {"authorization", "Authorization", "Origin"}
ParamValues == {Str("X"), Str(""), Num("7")}

ConnectionParams ==
  {cp \in UNION {[1..k -> ParamKeys \X ParamValues] : k \in 0..MaxParams} :
     \A i \in 1..Len(cp), j \in 1..Len(cp) : i # j => cp[i][1] # cp[j][1]}

InitConnect ==
  \E h \in HeaderChoices :
    InitWith([s \in Sockets |-> Request(FALSE, IF s = "s1" THEN h ELSE <<>>)])

NextConnect ==
  \/ EnhanceCall("c1")
  \/ EnhanceInstall("c1")
  \/ \E cp \in ConnectionParams : OnConnect("s1", cp)

SpecConnect == InitConnect /\ [][NextConnect]_vars

\* SpecValidation: operations "1" on socket s1 that get as far as lines
\* 215-267, over every parse outcome, rule count and list of reported errors.
ValidationOps == {o \in Ops : o <= 2}

NextValidation ==
  \/ EnhanceCall("c1")
  \/ EnhanceInstall("c1")
  \/ \E cp \in ConnectionParamsShort : OnConnect("s1", cp)
  \/ \E o \in ValidationOps : StartOperation(o, "s1", "1")
  \/ \E o \in Ops : MiddlewareDone(o, FALSE)
  \/ \E o \in Ops : ProviderYield(o)
  \/ \E o \in Ops : SchemaResolved(o)
  \/ \E o \in Ops, parseOk \in BOOLEAN, rules \in 0..MaxRules :
       \E reported \in (IF rules = 0 THEN {<<>>} ELSE ErrorLists(MaxErrors)) :
         OperationFinish(o, parseOk, rules, reported)

SpecValidation == Init /\ [][NextValidation]_vars

\* SpecErrors: operations on both sockets (two ids on s1, one on s2) whose
\* middleware, context provider or validation may fail and whose middleware
\* may write an error status; each socket sends one connection_init.
NextErrors ==
  \/ EnhanceCall("c1")
  \/ EnhanceInstall("c1")
  \/ \E s \in Sockets, cp \in ConnectionParamsShort :
       socket[s].postgraphileId = 0 /\ OnConnect(s, cp)
  \/ \E o \in Ops, opId \in OpIds : StartOperation(o, "s1", opId)
  \/ \E o \in Ops : StartOperation(o, "s2", "1")
  \/ \E o \in Ops : MiddlewareWriteHead(o, 500, FALSE)
  \/ \E o \in Ops, err \in BOOLEAN : MiddlewareDone(o, err)
  \/ \E o \in Ops : ProviderYield(o)
  \/ \E o \in Ops : ProviderReject(o)
  \/ \E o \in Ops : SchemaResolved(o)
  \/ \E o \in Ops, reported \in ErrorLists(1) :
       OperationFinish(o, TRUE, 1, reported)

SpecErrors == Init /\ [][NextErrors]_vars

\* SpecInstall: both installation calls, in any order and overlap, with
\* schema reloads and connections.
NextInstall ==
  \/ \E c \in Calls : EnhanceCall(c)
  \/ \E c \in Calls : EnhanceInstall(c)
  \/ SchemaReload
  \/ \E s \in Sockets, cp \in ConnectionParamsShort : OnConnect(s, cp)

SpecInstall == Init /\ [][NextInstall]_vars

\* SpecUpgrade: upgrade requests over every url of Urls, under every value
\* of options.graphqlRoute.
InitUpgrade ==
  \E route \in RouteOptions :
    InitOptions([graphqlRoute |-> route],
                [s \in Sockets |-> Request(FALSE, <<>>)])

NextUpgrade ==
  \/ \E c \in Calls : EnhanceCall(c)
  \/ \E c \in Calls : EnhanceInstall(c)
  \/ \E url \in Urls : Upgrade(url)

SpecUpgrade == InitUpgrade /\ [][NextUpgrade]_vars

\* SpecReserved: the upgrade request of socket s1 carries a host response
\* object (req.res), that of s2 does not; operations run on both.
InitReserved == InitWith([s \in Sockets |-> Request(s = "s1", <<>>)])

NextReserved ==
  \/ EnhanceCall("c1")
  \/ EnhanceInstall("c1")
  \/ \E s \in Sockets, cp \in ConnectionParamsShort :
       socket[s].postgraphileId = 0 /\ OnConnect(s, cp)
  \/ \E o \in Ops, s \in Sockets : StartOperation(o, s, "1")
  \/ \E o \in Ops : MiddlewareDone(o, FALSE)
  \/ \E o \in Ops : ProviderYield(o)
  \/ \E o \in Ops : SchemaResolved(o)
  \/ \E o \in Ops : OperationFinish(o, TRUE, 0, <<>>)
  \/ \E s \in Sockets : OnOperationComplete(s, "1")

SpecReserved == InitReserved /\ [][NextReserved]_vars

\* SpecReload: operations on socket s1, connected once, while the schema
\* provider changes the schema it returns.
NextReload ==
  \/ EnhanceCall("c1")
  \/ EnhanceInstall("c1")
  \/ SchemaReload
  \/ \E cp \in ConnectionParamsShort :
       socket["s1"].postgraphileId = 0 /\ OnConnect("s1", cp)
  \/ \E o \in Ops, opId \in OpIds : StartOperation(o, "s1", opId)
  \/ \E o \in Ops : MiddlewareDone(o, FALSE)
  \/ \E o \in Ops : ProviderYield(o)
  \/ \E o \in Ops : SchemaResolved(o)
  \/ \E o \in Ops : OperationFinish(o, TRUE, 0, <<>>)

SpecReload == Init /\ [][NextReload]_vars

(* ------------------------------------------------------------- properties *)

\* created and not yet resolved
Live(o) == promise[o].made /\ promise[o].resolved = 0
\* the handlers of invocation o have settled
Finished(o) == operation[o].pc \in {"returned", "failed"}

\* C1: in every reachable state no two live (created, unresolved) context
\* handles were registered under the same contextKey.
C1_OneLiveHandlePerKey ==
  \A o1 \in Ops, o2 \in Ops :
    (o1 # o2 /\ Live(o1) /\ Live(o2)) => promise[o1].key # promise[o2].key

\* a key was acquired twice: its first handle is resolved, its second is live
C1_Witness ==
  \E o1 \in Ops, o2 \in Ops :
    /\ o1 # o2
    /\ promise[o1].made /\ promise[o2].made
    /\ promise[o1].key = promise[o2].key
    /\ promise[o1].resolved = 1
    /\ Live(o2)

\* the step is invocation o acquiring a handle for a key whose slot holds the
\* live handle of invocation old
Reacquires(o, old) ==
  /\ ~promise[o].made /\ promise'[o].made
  /\ old # o
  /\ Slot(keepalivePromisesByContextKey, promise'[o].key) = old

\* C2: an acquire over an occupied key resolves the old handle (exactly once)
\* and leaves the new, unresolved handle in the slot; no step ever brings the
\* number of resolve() calls on a handle above one.
C2_ReacquireResolvesOldOnce ==
  [][/\ \A o \in Ops : promise'[o].resolved <= 1
     /\ \A o \in Ops, old \in Ops :
          Reacquires(o, old) =>
            /\ promise[old].resolved = 0
            /\ promise'[old].resolved = 1
            /\ Slot(keepalivePromisesByContextKey', promise'[o].key) = o
            /\ promise'[o].resolved = 0]_vars

\* a handle was resolved by a re-acquire: no completion ran for its invocation
C2_Witness ==
  \E o1 \in Ops, o2 \in Ops :
    /\ o1 # o2
    /\ promise[o1].made /\ promise[o1].resolved = 1
    /\ ~operation[o1].completed
    /\ Live(o2) /\ promise[o2].key = promise[o1].key
    /\ Slot(keepalivePromisesByContextKey, promise[o2].key) = o2

\* C3: in every reachable state and for every (socket, opId), releasing twice
\* gives the registry and the resolve counts that releasing once gives, and
\* releasing a key whose slot is empty or null changes nothing.
C3_ReleaseIdempotent ==
  \A s \in Sockets, opId \in OpIds :
    LET once == releaseContextForSocketAndOpId(Registry, s, opId)
        twice == releaseContextForSocketAndOpId(once, s, opId)
    IN /\ twice = once
       /\ Slot(once.map, contextKey(s, opId)) = Null
       /\ Slot(keepalivePromisesByContextKey, contextKey(s, opId)) = Null
            => once = Registry

\* completion released a live handle (its slot is null now, where a second
\* release finds nothing) while another key still holds a live handle
C3_Witness ==
  \E o1 \in Ops, o2 \in Ops :
    /\ promise[o1].made /\ promise[o1].resolved = 1 /\ operation[o1].completed
    /\ promise[o1].key \in DOMAIN keepalivePromisesByContextKey
    /\ keepalivePromisesByContextKey[promise[o1].key] = Null
    /\ Live(o2)
    /\ Slot(keepalivePromisesByContextKey, promise[o2].key) = o2

\* C4: once onOperationComplete has run for an invocation and its handler has
\* settled, the handle that invocation acquired is no longer live.
C4_ReleasedAtCompletion ==
  \A o \in Ops :
    (Finished(o) /\ operation[o].completed) => ~Live(o)

\* C5: each middleware is invoked at most once per socket, however many
\* operations call reqResFromSocket before the first pass has completed.
C5_MiddlewareOncePerSocket ==
  \A s \in Sockets : \A i \in 1..Len(Middlewares) : middlewareCalls[s][i] <= 1

\* C7: once writeHead was called with a status above 200 on a socket's
\* pseudo-response the socket is closed, and from then on no onOperation on
\* that socket returns execution parameters.
C7_NoReturnAfterErrorStatus ==
  [][/\ \A s \in Sockets : socket'[s].statusLogged => socket'[s].closed
     /\ \A o \in Ops :
          (operation[o].pc # "returned" /\ operation'[o].pc = "returned")
            => ~socket[operation[o].socket].statusLogged]_vars

\* the step in which the handler of invocation o fails
Fails(o) == operation[o].pc # "failed" /\ operation'[o].pc = "failed"

\* the step is onConnect on socket s, whose upgrade request exists
ConnectStep(s) ==
  /\ socketId' = socketId + 1
  /\ socket'[s].postgraphileId = socketId + 1
  /\ request[s].present

\* the value the connection parameters give for authorization, whatever the
\* case of the key (the last such key wins)
ParamAuthorization(cp) ==
  LET hits == {i \in 1..Len(cp) : ToLowerCase(cp[i][1]) = "authorization"} IN
  IF hits = {} THEN Undefined
  ELSE cp[CHOOSE i \in hits : \A j \in hits : j <= i][2]

\* C6 (as stated): after onConnect on a request without an authorization
\* header, the header is the authorization value X of the lower-cased
\* connection parameters; a request that has authorization = Y keeps Y.
C6_AuthorizationPrecedence ==
  [][\A s \in Sockets : ConnectStep(s) =>
       LET before == request[s].headers
           after == request'[s].headers
           x == ParamAuthorization(request'[s].connectionParams)
       IN /\ (~HasKey(before, "authorization") /\ x # Undefined)
               => Get(after, "authorization") = x
          /\ HasKey(before, "authorization")
               => Get(after, "authorization") = Get(before, "authorization")]_vars

\* C6 (amended): a request whose authorization header is missing or empty
\* gets String(X) when the lower-cased connection parameters carry a truthy
\* authorization = X; a non-empty authorization = Y is still Y after
\* onConnect, whatever the connection parameters; in every other case the
\* headers are unchanged.
C6_TruthyAuthorizationPrecedence ==
  [][\A s \in Sockets : ConnectStep(s) =>
       LET before == request[s].headers
           after == request'[s].headers
           x == ParamAuthorization(request'[s].connectionParams)
       IN /\ (~Truthy(Get(before, "authorization")) /\ Truthy(x))
               => Get(after, "authorization") = JsString(x)
          /\ Truthy(Get(before, "authorization"))
               => Get(after, "authorization") = Get(before, "authorization")
          /\ (Truthy(Get(before, "authorization")) \/ ~Truthy(x))
               => after = before]_vars

\* a header was backfilled from a capitalised key (the upgrade requests of
\* HeaderChoices carry Y or the empty string, never X)
C6_Witness ==
  /\ socketId = 1
  /\ HasKey(request["s1"].connectionParams, "Authorization")
  /\ ~HasKey(request["s1"].connectionParams, "authorization")
  /\ Get(request["s1"].connectionParams, "Authorization") = Str("X")
  /\ Get(request["s1"].headers, "authorization") = Str("X")

\* the message claim C8 expects: the messages in order, a newline between
\* neighbours, after the fixed prefix
RECURSIVE C8_Lines(_)
C8_Lines(messages) ==
  IF Len(messages) = 1 THEN messages[1]
  ELSE C8_Lines(SubSeq(messages, 1, Len(messages) - 1))
         \o "\n" \o messages[Len(messages)]

\* C8: a handler that reached the validation hook fails with the aggregate
\* error exactly when the hook yielded a rule and validate() reported an
\* error; the error's message is the reported messages in order joined by
\* newlines, its errors payload the reported list.  Otherwise it returns.
C8_ValidationAggregate ==
  \A o \in Ops :
    LET op == operation[o] IN
    /\ (op.pc = "failed" /\ op.error = "validation") =>
         /\ op.rules > 0
         /\ op.validationErrors # <<>>
         /\ op.message =
              "Query validation failed: \n" \o C8_Lines(op.validationErrors)
         /\ op.errors = op.validationErrors
    /\ op.pc = "returned" => (op.rules = 0 \/ op.validationErrors = <<>>)

\* two rules rejected the query with different messages
C8_Witness ==
  \E o \in Ops :
    /\ operation[o].pc = "failed" /\ operation[o].error = "validation"
    /\ operation[o].rules = 2
    /\ operation[o].errors = <<"e1", "e2">>

\* C9: the step in which a handler fails closes no socket and leaves the
\* registry and every other invocation's handle as they were.
C9_FailureIsolated ==
  [][\A o \in Ops : Fails(o) =>
       /\ \A s \in Sockets : socket'[s].closed = socket[s].closed
       /\ keepalivePromisesByContextKey' = keepalivePromisesByContextKey
       /\ \A p \in Ops \ {o} : promise'[p] = promise[p]]_vars

\* a handler failed after its context was acquired while another operation
\* of the same open socket holds its registered, unresolved handle
C9_Witness ==
  \E o \in Ops, p \in Ops :
    /\ o # p
    /\ operation[o].pc = "failed" /\ operation[o].error = "validation"
    /\ operation[p].socket = operation[o].socket
    /\ ~socket[operation[o].socket].closed
    /\ Live(p)
    /\ Slot(keepalivePromisesByContextKey, promise[p].key) = p

\* C10: whatever the order and overlap of the calls, at most one of them got
\* past the mark, and at most one upgrade listener and one subscription
\* server were attached.
C10_InstalledOnce ==
  /\ upgradeListeners <= 1
  /\ subscriptionServers <= 1
  /\ Cardinality({c \in Calls : enhance[c] \in {"awaiting", "installed"}}) <= 1

\* a second call returned at once while the first was still awaiting the
\* schema, and the first went on to install
C10_Witness ==
  \E c1 \in Calls, c2 \in Calls :
    /\ enhance[c1] = "installed"
    /\ enhance[c2] = "returned"
    /\ upgradeListeners = 1

\* the route the configuration names: the option, or /graphql when the option
\* is absent or empty
C11_ConfiguredRoute ==
  IF options.graphqlRoute \in {Undefined, Str("")}
    THEN "/graphql"
    ELSE options.graphqlRoute.str

\* C11: an upgrade request gets the handshake and a connection event exactly
\* when its parsed pathname is the configured route (default /graphql); a
\* request to another path, or one whose url cannot be parsed, gets neither.
C11_PathFiltering ==
  \A i \in 1..Len(upgrades) :
    LET u == upgrades[i] IN
    /\ u.handshakes = u.connections
    /\ u.handshakes \in {0, 1}
    /\ u.handshakes = 1 <=> pathname(u.url) = C11_ConfiguredRoute
    /\ u.url = NoUrl => u.handshakes = 0
    /\ (u.url = "/other" /\ C11_ConfiguredRoute = "/graphql")
         => u.handshakes = 0
    /\ (u.url \in {"/graphql", "/graphql?token=1"}
          /\ C11_ConfiguredRoute = "/graphql") => u.handshakes = 1

\* under the default route a request to /graphql with a query string was
\* accepted and a request to /other was ignored
C11_Witness ==
  /\ options.graphqlRoute = Undefined
  /\ Len(upgrades) = 2
  /\ upgrades[1].url = "/graphql?token=1" /\ upgrades[1].connections = 1
  /\ upgrades[2].url = "/other" /\ upgrades[2].connections = 0

\* some reqResFromSocket call has met a request that carries req.res
C12_CollisionSeen ==
  \E o \in Ops : operation[o].error = "req.res is reserved"

\* C12 (as stated): once the reserved-field collision happened the whole
\* enhancement is aborted: from then on no middleware is invoked, no
\* pseudo-response is cached and no context handle is acquired, for any
\* operation.
C12_CollisionAbortsEnhancement ==
  [][C12_CollisionSeen =>
       /\ middlewareCalls' = middlewareCalls
       /\ \A s \in Sockets : socket'[s].res = socket[s].res
       /\ \A o \in Ops : promise'[o].made = promise[o].made]_vars

\* C12 (amended): for a socket whose stashed request carries req.res, every
\* operation on it fails at its first reqResFromSocket: no middleware is
\* invoked for that socket, no pseudo-response is cached on it, the context
\* provider is not reached and no handle is acquired by its operations.
C12_CollisionFailsSocketOperations ==
  \A s \in Sockets :
    (request[s].present /\ request[s].res) =>
      /\ \A i \in 1..Len(Middlewares) : middlewareCalls[s][i] = 0
      /\ socket[s].res = 0
      /\ \A o \in Ops :
           (operation[o].pc # "idle" /\ operation[o].socket = s) =>
             /\ operation[o].pc = "failed"
             /\ operation[o].call = 1
             /\ operation[o].error \in
                  {"req.res is reserved", "req could not be extracted"}
             /\ ~promise[o].made

\* an operation on the colliding socket failed, and an operation started
\* afterwards on the other socket holds a live handle
C12_Witness ==
  /\ operation[1].socket = "s1"
  /\ operation[1].error = "req.res is reserved"
  /\ operation[2].socket = "s2"
  /\ Live(2)
  /\ socket["s1"].res = 0

\* the step resolves the handle of invocation o
Resolves(o) == promise'[o].resolved > promise[o].resolved

\* C13: the handle registered for a key is unresolved, and a step resolves a
\* handle only if it is the completion of the handle's own (socket, opId),
\* which empties the slot, or another invocation's acquire on the same key,
\* which takes the slot.
C13_ResolvedOnlyByOwnKey ==
  [][/\ \A k \in DOMAIN keepalivePromisesByContextKey' :
          keepalivePromisesByContextKey'[k] # Null =>
            /\ promise'[keepalivePromisesByContextKey'[k]].resolved = 0
            /\ promise'[keepalivePromisesByContextKey'[k]].key = k
     /\ \A o \in Ops : Resolves(o) =>
          /\ promise[o].resolved = 0
          /\ Slot(keepalivePromisesByContextKey, promise[o].key) = o
          /\ \/ /\ Slot(keepalivePromisesByContextKey', promise[o].key) = Null
                /\ operation'[o].completed
                /\ \A p \in Ops : promise'[p].made = promise[p].made
                /\ \A p \in Ops \ {o} : promise'[p] = promise[p]
             \/ \E p \in Ops \ {o} :
                  /\ ~promise[p].made /\ promise'[p].made
                  /\ promise'[p].key = promise[o].key
                  /\ operation[p].socket = operation[o].socket
                  /\ operation[p].opId = operation[o].opId
                  /\ Slot(keepalivePromisesByContextKey', promise[o].key) = p]_vars

\* completion of ("s1", "1") resolved its handle while the handle of another
\* operation id of the same socket stays registered and unresolved
C13_Witness ==
  \E o1 \in Ops, o2 \in Ops :
    /\ operation[o1].socket = "s1" /\ operation[o1].opId = "1"
    /\ operation[o2].socket = "s1" /\ operation[o2].opId = "1|1"
    /\ promise[o1].resolved = 1 /\ operation[o1].completed
    /\ ~operation[o2].completed
    /\ Live(o2)
    /\ Slot(keepalivePromisesByContextKey, promise[o2].key) = o2

\* C14: once a reqResFromSocket call has completed for a socket its cached
\* pseudo-response is never replaced, and the second call inside an operation
\* handler returns the pseudo-response the handler's first call returned and
\* invokes no middleware; a failed middleware pass caches nothing.
C14_CachedPairReturned ==
  [][/\ \A s \in Sockets :
          socket[s].res # 0 => socket'[s].res = socket[s].res
     /\ \A o \in Ops :
          (operation[o].call = 1 /\ operation'[o].call = 2) =>
            /\ operation'[o].pc = "reqres"
            /\ operation'[o].res = operation[o].res
            /\ middlewareCalls' = middlewareCalls
     /\ \A o \in Ops :
          (Fails(o) /\ operation'[o].error = "middleware") =>
            socket'[operation[o].socket].res = socket[operation[o].socket].res]_vars

\* C15: a pass invokes the middlewares one at a time in order, the next one
\* only in the step in which the current one signals done without error; the
\* step in which a middleware signals done(err) invokes nothing, and the
\* handler that failed this way stays failed, its context provider is never
\* called and it acquires no handle.
C15_MiddlewareInOrder ==
  [][\A o \in Ops :
       LET op == operation[o]
           next == operation'[o]
       IN /\ next.middleware # op.middleware =>
               /\ next.middleware = op.middleware + 1
               /\ next.pc = "middleware"
               /\ op.middleware > 0 => op.pc = "middleware"
               /\ middlewareCalls' =
                    Invoke(middlewareCalls, next.socket, next.middleware)
          /\ (Fails(o) /\ next.error = "middleware") =>
               /\ op.pc = "middleware"
               /\ next.middleware = op.middleware
               /\ middlewareCalls' = middlewareCalls
          /\ (next.pc = "failed" /\ next.error = "middleware") =>
               /\ next.context = 0
               /\ ~promise'[o].made
          /\ (op.pc = "failed" /\ op.error = "middleware") =>
               /\ next.pc = "failed" /\ next.error = "middleware"]_vars

\* the first middleware of a pass signalled an error: the second was not
\* invoked on that socket and the operation holds no handle
C15_Witness ==
  \E o \in Ops :
    /\ operation[o].pc = "failed" /\ operation[o].error = "middleware"
    /\ operation[o].middleware = 1
    /\ middlewareCalls[operation[o].socket] = <<1, 0>>
    /\ ~promise[o].made

\* invocation q holds the handle registered under its key
Registered(q) ==
  promise[q].made /\ Slot(keepalivePromisesByContextKey, promise[q].key) = q

\* the registry st leaves the registered handle of q as it is
Untouched(st, q) ==
  st.promise[q] = promise[q] /\ Slot(st.map, promise[q].key) = q

\* C16: in every reachable state, release or acquire for (s, a) leaves the
\* registered handle of every invocation on another socket or another
\* operation id as it is, and an acquire for (s, a) by a new invocation
\* leaves that invocation's live handle in the slot of (s, a), whatever
\* happened to other keys before.
C16_KeysIndependent ==
  \A s \in Sockets, a \in OpIds :
    /\ \A q \in Ops :
         (Registered(q)
            /\ <<operation[q].socket, operation[q].opId>> # <<s, a>>) =>
           Untouched(releaseContextForSocketAndOpId(Registry, s, a), q)
    /\ \A o \in Ops : ~promise[o].made =>
         LET st == addContextForSocketAndOpId(Registry, o, s, a, o) IN
         /\ \A q \in Ops \ {o} :
              (Registered(q)
                 /\ <<operation[q].socket, operation[q].opId>> # <<s, a>>) =>
                Untouched(st, q)
         /\ st.promise[o].resolved = 0
         /\ Slot(st.map, contextKey(s, a)) = o

\* on socket 1 the operation ids "1" and "1|1" both hold their own live
\* handle, under the keys "1|1" and "1|1|1"
C16_Witness ==
  \E o1 \in Ops, o2 \in Ops :
    /\ Live(o1) /\ Registered(o1) /\ promise[o1].key = "1|1"
    /\ Live(o2) /\ Registered(o2) /\ promise[o2].key = "1|1|1"
    /\ operation[o1].socket = operation[o2].socket

\* the header names of the connection model, in the cases clients send
C17_Names == {"authorization", "origin", "Authorization", "Origin"}

\* the value the connection parameters give for the lower-case name k
C17_ParamNamed(cp, k) ==
  LET hits == {i \in 1..Len(cp) : ToLowerCase(cp[i][1]) = k} IN
  IF hits = {} THEN Undefined
  ELSE cp[CHOOSE i \in hits : \A j \in hits : j <= i][2]

C18_SchemaPerOperation ==
  [][\A o \in Ops :
       /\ operation'[o].schema # operation[o].schema =>
            /\ operation[o].pc = "schema"
            /\ promise[o].made
            /\ operation[o].context # 0
            /\ operation'[o].schema = currentSchema
            /\ currentSchema # schema => operation'[o].schema # schema
       /\ (operation[o].pc = "schema" /\ operation'[o].pc # "schema") =>
            operation'[o].schema = currentSchema
       /\ operation'[o].pc \in {"reqres", "returned"} =>
            operation'[o].schema \in Schemas]_vars

\* two operations of the socket connected once as socket 1: the first
\* returned with the startup schema, the second with the reloaded one
C18_Witness ==
  /\ socketId = 1
  /\ schema = "schemaA"
  /\ operation[1].pc = "returned" /\ operation[1].schema = "schemaA"
  /\ operation[2].pc = "returned" /\ operation[2].schema = "schemaB"
  /\ operation[1].socket = operation[2].socket

\* C19: no two sockets share an identity, an identity once assigned never
\* changes, and so the key release computes for the (socket, opId) of a
\* registered handle is the key the handle was acquired under.
C19_IdentityStable ==
  [][/\ \A s1 \in Sockets, s2 \in Sockets :
          (s1 # s2 /\ socket'[s1].postgraphileId # 0) =>
            socket'[s1].postgraphileId # socket'[s2].postgraphileId
     /\ \A s \in Sockets :
          socket[s].postgraphileId # 0 =>
            socket'[s].postgraphileId = socket[s].postgraphileId
     /\ \A q \in Ops :
          (promise[q].made
             /\ Slot(keepalivePromisesByContextKey, promise[q].key) = q) =>
            promise[q].key = contextKey(operation[q].socket, operation[q].opId)]_vars

\* C20: every handle that was created is the one stored under its key or
\* has been resolved; and in the step in which getContext resolves for
\* invocation o the slot of its (socket, opId) holds o's unresolved handle,
\* whose context value is the value getContext resolves with.
C20_NoOrphanedHandle ==
  [][/\ \A o \in Ops : promise'[o].made =>
          \/ Slot(keepalivePromisesByContextKey', promise'[o].key) = o
          \/ promise'[o].resolved >= 1
     /\ \A o \in Ops :
          (operation[o].pc = "context" /\ operation'[o].pc = "schema") =>
            /\ promise'[o].made
            /\ promise'[o].resolved = 0
            /\ promise'[o].key =
                 contextKey(operation[o].socket, operation[o].opId)
            /\ Slot(keepalivePromisesByContextKey', promise'[o].key) = o
            /\ operation'[o].context # 0
            /\ promise'[o].context = operation'[o].context]_vars

\* getContext resolved twice for one key: the first handle left the slot
\* resolved, the second is stored with the context its handler received
C20_Witness ==
  /\ promise[1].made /\ promise[2].made
  /\ promise[1].key = promise[2].key
  /\ promise[1].resolved = 1
  /\ Slot(keepalivePromisesByContextKey, promise[2].key) = 2
  /\ promise[2].resolved = 0
  /\ operation[2].context = promise[2].context
  /\ operation[1].context # operation[2].context

====
